---- MODULE Spec2Model ----
(***************************************************************************)
(* Per-encounter measure scoring and result reconciliation of the CMS986   *)
(* test runner (src/index.ts): the encounter-set extractors, the           *)
(* observation scorer, the six-group aggregator (calculateActualGroups),   *)
(* the reconciler (compareGroups), the loop and the summary of the madie   *)
(* command, and the expected results read from a MeasureReport             *)
(* (src/madie/test-bundle-processor.ts).                                   *)
(*                                                                         *)
(* Encodings                                                               *)
(*  - An encounter identifier is a natural number; 0 stands for a falsy    *)
(*    identifier (the empty string, an absent value).                      *)
(*  - An element of a raw expression result is [kind, id]:                 *)
(*      "nonobj"  null or a scalar (fails `item && typeof item=='object'`) *)
(*      "noid"    an object without id                                     *)
(*      "str"     an object whose id is the string id (0: the string '')   *)
(*      "wrap"    an object whose id is {value: id} (0: no/falsy value)    *)
(*      "other"   an object whose id is truthy, no string and no object    *)
(*  - A raw expression result is [isArray, items, truthy]; isArray = FALSE *)
(*    stands for null or undefined (truthy = FALSE) and for a scalar or a  *)
(*    plain object (truthy = TRUE); an array is truthy.                    *)
(*  - A JavaScript number that results from a division is kept exact as a  *)
(*    fraction [num, den] with den > 0.                                    *)
(***************************************************************************)
EXTENDS Integers, Sequences, FiniteSets, TLC

VARIABLES
    expressions,   \* the CQL expression results of one patient (input A)
    expected,      \* the ExpectedGroup[] of the test case (input B)
    groups,        \* the ActualGroup[] returned by calculateActualGroups
    comparisons,   \* the GroupComparison[] returned by compareGroups
    pc,            \* "input" -> "calculated" -> "compared"; "running" -> "done";
                   \* "report" -> "loaded"
    testCases,     \* the TestCase[] loaded by the madie command
    position,      \* the index of the test case the loop is at
    results,       \* the result entries pushed so far
    output,        \* the outputData of the run and the exit status
    report         \* the groups of the MeasureReport of a test case

vars ==
    <<expressions, expected, groups, comparisons, pc, testCases, position, results,
      output, report>>

----------------------------------------------------------------------------
(* Raw values                                                              *)

Item(kind, id) == [kind |-> kind, id |-> id]

StrItem(id) == Item("str", id)

Arr(items) == [isArray |-> TRUE, items |-> items, truthy |-> TRUE]

NotArray == [isArray |-> FALSE, items |-> <<>>, truthy |-> FALSE]

\* A value that is no array and is truthy: a scalar or a plain object.
Scalar == [isArray |-> FALSE, items |-> <<>>, truthy |-> TRUE]

\* The names of the nine criterion expressions besides 'Measure Population',
\* called by the local variables that index.ts binds them to.
CriterionNames ==
    {"screeningOrReferral", "atRiskOrReferral", "notAtRiskWithoutReferral",
     "assessmentWithStatus", "modSevereAssessment", "notMildAssessment",
     "diagnosis", "carePlan"}

ExprNames ==
    {"initialPopulation", "measurePopulation", "measurePopulationExclusion"}
        \cup CriterionNames

----------------------------------------------------------------------------
(* Fractions: the exact value of a JavaScript division                      *)

Frac(n, d) == [num |-> n, den |-> d]

FracZero == Frac(0, 1)

FracAdd(a, b) == Frac(a.num * b.den + b.num * a.den, a.den * b.den)

FracEq(a, b) == a.num * b.den = b.num * a.den

FracLeq(a, b) == a.num * b.den <= b.num * a.den

\* Math.round of a non-negative fraction: the nearest integer, halves up.
MathRound(f) == (2 * f.num + f.den) \div (2 * f.den)

----------------------------------------------------------------------------
(* Encounter-set extractors                                                *)

\* `if (enc.id)`: the id property is truthy.
IdTruthy(enc) ==
    \/ enc.kind \in {"wrap", "other"}
    \/ enc.kind = "str" /\ enc.id # 0

\* Faulty variant of AddsId: `idObj.value` is added without the truthiness
\* test, so that an id object without value adds an identifier too.
AddsIdOfAnyWrapper(item) ==
    /\ item.kind # "nonobj"
    /\ IdTruthy(item)
    /\ item.kind \in {"str", "wrap"}

\* getEncounterIds: the guards under which `ids.add` is reached for an item.
AddsId(item) ==
    /\ item.kind # "nonobj"
    /\ IdTruthy(item)
    /\ \/ item.kind = "str"
       \/ item.kind = "wrap" /\ item.id # 0

getEncounterIds(val) ==
    IF val.isArray
    THEN {val.items[i].id : i \in {j \in DOMAIN val.items : AddsId(val.items[j])}}
    ELSE {}

\* Faulty variant of getEncounterId: an id that is neither a string nor an
\* id object is converted to a string, `String(enc.id)`.
getEncounterIdOfAnyId(enc) ==
    IF IdTruthy(enc)
    THEN IF enc.kind = "str" THEN enc.id
         ELSE IF enc.kind = "wrap" /\ enc.id # 0 THEN enc.id
         ELSE IF enc.kind = "other" THEN enc.id
         ELSE 0
    ELSE 0

\* getEncounterId: the identifier of an encounter object, 0 ('') if none.
getEncounterId(enc) ==
    IF IdTruthy(enc)
    THEN IF enc.kind = "str" THEN enc.id
         ELSE IF enc.kind = "wrap" /\ enc.id # 0 THEN enc.id
         ELSE 0
    ELSE 0

RECURSIVE PushIds(_)
PushIds(items) ==
    IF items = <<>> THEN <<>>
    ELSE LET item == Head(items)
             id == getEncounterId(item)
         IN  IF item.kind # "nonobj" /\ id # 0
             THEN <<id>> \o PushIds(Tail(items))
             ELSE PushIds(Tail(items))

RECURSIVE InsertAsc(_, _)
InsertAsc(v, s) ==
    IF s = <<>> THEN <<v>>
    ELSE IF v <= Head(s) THEN <<v>> \o s
         ELSE <<Head(s)>> \o InsertAsc(v, Tail(s))

RECURSIVE SortAsc(_)
SortAsc(s) == IF s = <<>> THEN <<>> ELSE InsertAsc(Head(s), SortAsc(Tail(s)))

\* Faulty variant of getSortedEncounterIds: the encounters are sorted, as
\* the name of the function announces, here by identifier.
getSortedEncounterIdsSorting(val) ==
    IF ~val.isArray THEN <<>> ELSE SortAsc(PushIds(val.items))

\* getSortedEncounterIds: the identifiers in the order of the array.
getSortedEncounterIds(val) ==
    IF ~val.isArray THEN <<>> ELSE PushIds(val.items)

----------------------------------------------------------------------------
(* Observation scorer                                                       *)

\* The identifier sets of the criterion expressions.
CriterionSets(expr) == [c \in CriterionNames |-> getEncounterIds(expr[c])]

\* Faulty variant of ObsIncrements: obs3 and obs4 without the override of
\* not-at-risk-without-referral.
ObsIncrementsNoOverride(encId, S) ==
    <<IF encId \in S.screeningOrReferral THEN 1 ELSE 0,
      IF encId \in S.notAtRiskWithoutReferral THEN 0
      ELSE IF encId \in S.atRiskOrReferral /\ encId \in S.assessmentWithStatus
           THEN 1 ELSE 0,
      IF /\ encId \in S.atRiskOrReferral
         /\ encId \in S.modSevereAssessment
         /\ encId \in S.diagnosis
      THEN 1 ELSE 0,
      IF /\ encId \in S.atRiskOrReferral
         /\ encId \in S.modSevereAssessment
         /\ encId \in S.carePlan
      THEN 1 ELSE 0>>

\* calculateObservations, loop body: what one encounter adds to obs1..obs4.
ObsIncrements(encId, S) ==
    <<IF encId \in S.screeningOrReferral THEN 1 ELSE 0,
      IF encId \in S.notAtRiskWithoutReferral THEN 0
      ELSE IF encId \in S.atRiskOrReferral /\ encId \in S.assessmentWithStatus
           THEN 1 ELSE 0,
      IF encId \in S.notAtRiskWithoutReferral THEN 0
      ELSE IF /\ encId \in S.atRiskOrReferral
              /\ encId \in S.modSevereAssessment
              /\ encId \in S.diagnosis
           THEN 1 ELSE 0,
      IF encId \in S.notAtRiskWithoutReferral THEN 0
      ELSE IF /\ encId \in S.atRiskOrReferral
              /\ encId \in S.modSevereAssessment
              /\ encId \in S.carePlan
           THEN 1 ELSE 0>>

RECURSIVE SumObservations(_, _)
SumObservations(pop, S) ==
    IF pop = {} THEN <<0, 0, 0, 0>>
    ELSE LET encId == CHOOSE e \in pop : TRUE
             inc == ObsIncrements(encId, S)
             rest == SumObservations(pop \ {encId}, S)
         IN  [k \in 1..4 |-> inc[k] + rest[k]]

RECURSIVE SumObservationsSeq(_, _)
SumObservationsSeq(ids, S) ==
    IF ids = <<>> THEN <<0, 0, 0, 0>>
    ELSE LET inc == ObsIncrements(Head(ids), S)
             rest == SumObservationsSeq(Tail(ids), S)
         IN  [k \in 1..4 |-> inc[k] + rest[k]]

\* Faulty variant of calculateObservations: sums over the elements of the
\* array, so that a repeated encounter counts twice.
calculateObservationsPerElement(expr) ==
    SumObservationsSeq(getSortedEncounterIds(expr.measurePopulation), CriterionSets(expr))

\* Faulty variant of calculateObservations: sums over every encounter of a
\* criterion set, in the Measure Population or not.
calculateObservationsAllEncounters(expr) ==
    SumObservations(UNION {CriterionSets(expr)[c] : c \in CriterionNames},
                    CriterionSets(expr))

\* calculateObservations: obs1..obs4 summed over the Measure Population set.
calculateObservations(expr) ==
    SumObservations(getEncounterIds(expr.measurePopulation), CriterionSets(expr))

\* Faulty variant of EncObsFirst: the first loop scores obs2..obs4 without
\* the override of not-at-risk-without-referral.
EncObsFirstWithoutOverride(encId, S) ==
    <<IF encId \in S.screeningOrReferral THEN 1 ELSE 0,
      IF encId \in S.atRiskOrReferral /\ encId \in S.assessmentWithStatus
      THEN 1 ELSE 0,
      IF /\ encId \in S.atRiskOrReferral
         /\ encId \in S.modSevereAssessment
         /\ encId \in S.diagnosis
      THEN 1 ELSE 0,
      IF /\ encId \in S.atRiskOrReferral
         /\ encId \in S.modSevereAssessment
         /\ encId \in S.carePlan
      THEN 1 ELSE 0>>

\* calculateActualGroups, first loop: encObs1..encObs4 of one encounter.
EncObsFirst(encId, S) ==
    <<IF encId \in S.screeningOrReferral THEN 1 ELSE 0,
      IF /\ encId \notin S.notAtRiskWithoutReferral
         /\ encId \in S.atRiskOrReferral
         /\ encId \in S.assessmentWithStatus
      THEN 1 ELSE 0,
      IF /\ encId \notin S.notAtRiskWithoutReferral
         /\ encId \in S.atRiskOrReferral
         /\ encId \in S.modSevereAssessment
         /\ encId \in S.diagnosis
      THEN 1 ELSE 0,
      IF /\ encId \notin S.notAtRiskWithoutReferral
         /\ encId \in S.atRiskOrReferral
         /\ encId \in S.modSevereAssessment
         /\ encId \in S.carePlan
      THEN 1 ELSE 0>>

\* Faulty variant of EncEligibleFirst: the default is the full pathway.
EncEligibleFirstDefaultFour(encId, S) ==
    IF encId \in S.screeningOrReferral /\ encId \in S.notAtRiskWithoutReferral
    THEN 1
    ELSE IF /\ encId \in S.atRiskOrReferral
            /\ \/ encId \in S.notMildAssessment
               \/ encId \notin S.assessmentWithStatus
         THEN 2
         ELSE 4

\* calculateActualGroups, first loop: encEligible of one encounter.
EncEligibleFirst(encId, S) ==
    IF encId \in S.screeningOrReferral /\ encId \in S.notAtRiskWithoutReferral
    THEN 1
    ELSE IF /\ encId \in S.atRiskOrReferral
            /\ \/ encId \in S.notMildAssessment
               \/ encId \notin S.assessmentWithStatus
         THEN 2
         ELSE IF encId \in S.screeningOrReferral THEN 4 ELSE 2

\* calculateActualGroups, second loop: encObs1..encObs4 of one encounter.
EncObsSecond(encId, S) ==
    <<IF encId \in S.screeningOrReferral THEN 1 ELSE 0,
      IF /\ encId \notin S.notAtRiskWithoutReferral
         /\ encId \in S.atRiskOrReferral
         /\ encId \in S.assessmentWithStatus
      THEN 1 ELSE 0,
      IF /\ encId \notin S.notAtRiskWithoutReferral
         /\ encId \in S.atRiskOrReferral
         /\ encId \in S.modSevereAssessment
         /\ encId \in S.diagnosis
      THEN 1 ELSE 0,
      IF /\ encId \notin S.notAtRiskWithoutReferral
         /\ encId \in S.atRiskOrReferral
         /\ encId \in S.modSevereAssessment
         /\ encId \in S.carePlan
      THEN 1 ELSE 0>>

\* Faulty variant of EncEligibleSecond: an encounter that stops after the
\* first assessment is eligible for three components.
EncEligibleSecondOfThree(encId, S) ==
    IF encId \in S.screeningOrReferral /\ encId \in S.notAtRiskWithoutReferral
    THEN 1
    ELSE IF /\ encId \in S.atRiskOrReferral
            /\ \/ encId \in S.notMildAssessment
               \/ encId \notin S.assessmentWithStatus
         THEN 3
         ELSE IF encId \in S.screeningOrReferral THEN 4 ELSE 2

\* Faulty variant of EncEligibleSecond: the full pathway is tested before
\* the short pathway.
EncEligibleFullPathFirst(encId, S) ==
    IF encId \in S.screeningOrReferral /\ encId \in S.notAtRiskWithoutReferral
    THEN 1
    ELSE IF encId \in S.screeningOrReferral THEN 4
         ELSE 2

\* calculateActualGroups, second loop: encEligible of one encounter.
EncEligibleSecond(encId, S) ==
    IF encId \in S.screeningOrReferral /\ encId \in S.notAtRiskWithoutReferral
    THEN 1
    ELSE IF /\ encId \in S.atRiskOrReferral
            /\ \/ encId \in S.notMildAssessment
               \/ encId \notin S.assessmentWithStatus
         THEN 2
         ELSE IF encId \in S.screeningOrReferral THEN 4 ELSE 2

EncScore(obs) == obs[1] + obs[2] + obs[3] + obs[4]

\* First loop: encPercentage, the unrounded (encScore / encEligible) * 100.
EncPercentage(encId, S) ==
    LET encEligible == EncEligibleFirst(encId, S)
    IN  IF encEligible > 0
        THEN Frac(EncScore(EncObsFirst(encId, S)) * 100, encEligible)
        ELSE FracZero

\* Second loop: encPct, Math.round((encScore / encEligible) * 100).
EncPct(encId, S) ==
    LET encEligible == EncEligibleSecond(encId, S)
    IN  IF encEligible > 0
        THEN MathRound(Frac(EncScore(EncObsSecond(encId, S)) * 100, encEligible))
        ELSE 0

\* First loop: totalComponentsScore over the sequence.
RECURSIVE TotalComponentsScore(_, _)
TotalComponentsScore(ids, S) ==
    IF ids = <<>> THEN 0
    ELSE EncScore(EncObsFirst(Head(ids), S)) + TotalComponentsScore(Tail(ids), S)

\* First loop: totalPercentageSum over the sequence.
RECURSIVE TotalPercentageSum(_, _)
TotalPercentageSum(ids, S) ==
    IF ids = <<>> THEN FracZero
    ELSE FracAdd(EncPercentage(Head(ids), S), TotalPercentageSum(Tail(ids), S))

\* Second loop: encounterScores and encounterPercentages.
EncounterScores(ids, S) ==
    [k \in 1..Len(ids) |-> EncScore(EncObsSecond(ids[k], S))]

EncounterPercentages(ids, S) == [k \in 1..Len(ids) |-> EncPct(ids[k], S)]

----------------------------------------------------------------------------
(* Group aggregator                                                         *)

\* `Group_${i}`
GroupId(i) ==
    <<"Group_1", "Group_2", "Group_3", "Group_4", "Group_5", "Group_6">>[i]

Observations(o1, o2, o3, o4) == [obs1 |-> o1, obs2 |-> o2, obs3 |-> o3, obs4 |-> o4]

Populations(ip, mp, mpe, obs) ==
    [initialPopulation |-> ip, measurePopulation |-> mp,
     measurePopulationExclusion |-> mpe, observations |-> obs]

Group(id, pops, score) == [groupId |-> id, populations |-> pops, measureScore |-> score]

\* `Array.isArray(r) ? r.length : 0`
ArrayCount(val) == IF val.isArray THEN Len(val.items) ELSE 0

\* Faulty variant of SlotOrZero: the index is off by one, `a[k] || 0`.
SlotOrZeroShifted(a, k) == IF k + 1 <= Len(a) THEN a[k + 1] ELSE 0

\* `a[k - 1] || 0`
SlotOrZero(a, k) == IF k <= Len(a) THEN a[k] ELSE 0

\* Faulty variant of ScoreOver: the division is not guarded, `n / mpCount`.
ScoreOverUnguarded(n, mpCount) == Frac(n, mpCount)

\* `mpCount > 0 ? n / mpCount : 0`
ScoreOver(n, mpCount) == IF mpCount > 0 THEN Frac(n, mpCount) ELSE FracZero

\* Faulty variant of RatioGroups: the loop stops one short, `i < 4`.
RatioGroupsOneShort(expr) ==
    LET ipCount == ArrayCount(expr.initialPopulation)
        mpCount == ArrayCount(expr.measurePopulation)
        mpeCount == ArrayCount(expr.measurePopulationExclusion)
        obsValues == calculateObservations(expr)
    IN  [i \in 1..3 |->
            Group(GroupId(i),
                  Populations(ipCount, mpCount, mpeCount,
                              Observations(obsValues[i], 0, 0, 0)),
                  ScoreOver(obsValues[i], mpCount))]

\* Groups 1-4 of calculateActualGroups.
RatioGroups(expr) ==
    LET ipCount == ArrayCount(expr.initialPopulation)
        mpCount == ArrayCount(expr.measurePopulation)
        mpeCount == ArrayCount(expr.measurePopulationExclusion)
        obsValues == calculateObservations(expr)
    IN  [i \in 1..4 |->
            Group(GroupId(i),
                  Populations(ipCount, mpCount, mpeCount,
                              Observations(obsValues[i], 0, 0, 0)),
                  ScoreOver(obsValues[i], mpCount))]

\* Groups 5 and 6 of calculateActualGroups.
AggregateGroups(expr) ==
    LET ipCount == ArrayCount(expr.initialPopulation)
        mpCount == ArrayCount(expr.measurePopulation)
        mpeCount == ArrayCount(expr.measurePopulationExclusion)
        sortedEncounterIds == getSortedEncounterIds(expr.measurePopulation)
        S == CriterionSets(expr)
        totalComponentsScore == TotalComponentsScore(sortedEncounterIds, S)
        totalPercentageSum == TotalPercentageSum(sortedEncounterIds, S)
        encounterScores == EncounterScores(sortedEncounterIds, S)
        encounterPercentages == EncounterPercentages(sortedEncounterIds, S)
    IN  <<Group("Group_5",
                Populations(ipCount, mpCount, mpeCount,
                            Observations(SlotOrZero(encounterScores, 1),
                                         SlotOrZero(encounterScores, 2),
                                         SlotOrZero(encounterScores, 3),
                                         SlotOrZero(encounterScores, 4))),
                ScoreOver(totalComponentsScore, mpCount)),
          Group("Group_6",
                Populations(ipCount, mpCount, mpeCount,
                            Observations(SlotOrZero(encounterPercentages, 1),
                                         SlotOrZero(encounterPercentages, 2),
                                         SlotOrZero(encounterPercentages, 3),
                                         SlotOrZero(encounterPercentages, 4))),
                IF mpCount > 0
                THEN Frac(totalPercentageSum.num, totalPercentageSum.den * (mpCount * 100))
                ELSE FracZero)>>

calculateActualGroups(expr) == RatioGroups(expr) \o AggregateGroups(expr)

----------------------------------------------------------------------------
(* Result reconciler                                                        *)

Max(a, b) == IF a >= b THEN a ELSE b

Min(a, b) == IF a <= b THEN a ELSE b

\* Insertion of v into a sequence sorted in descending order.
RECURSIVE InsertDesc(_, _)
InsertDesc(v, s) ==
    IF s = <<>> THEN <<v>>
    ELSE IF v >= Head(s) THEN <<v>> \o s
         ELSE <<Head(s)>> \o InsertDesc(v, Tail(s))

\* `.sort((a, b) => b - a)`
RECURSIVE SortDesc(_)
SortDesc(s) == IF s = <<>> THEN <<>> ELSE InsertDesc(Head(s), SortDesc(Tail(s)))

\* Faulty variant of NonZeroDesc: the values are filtered but not sorted.
NonZeroUnsorted(obs) ==
    SelectSeq(<<obs.obs1, obs.obs2, obs.obs3, obs.obs4>>, LAMBDA v : v # 0)

\* `[obs1, obs2, obs3, obs4].filter(v => v !== 0).sort((a, b) => b - a)`
NonZeroDesc(obs) ==
    SortDesc(SelectSeq(<<obs.obs1, obs.obs2, obs.obs3, obs.obs4>>, LAMBDA v : v # 0))

\* Faulty variant of PopMatch: the exclusion count is not compared.
PopMatchWithoutExclusion(exp, act) ==
    /\ exp.populations.initialPopulation = act.populations.initialPopulation
    /\ exp.populations.measurePopulation = act.populations.measurePopulation

\* popMatch
PopMatch(exp, act) ==
    /\ exp.populations.initialPopulation = act.populations.initialPopulation
    /\ exp.populations.measurePopulation = act.populations.measurePopulation
    /\ exp.populations.measurePopulationExclusion
           = act.populations.measurePopulationExclusion

\* Faulty variant of ObsMatch: the rule is selected by the groupId of the
\* actual record.
ObsMatchByActualId(exp, act) ==
    IF act.groupId = "Group_5" \/ act.groupId = "Group_6"
    THEN LET expObs == NonZeroDesc(exp.populations.observations)
             actObs == NonZeroDesc(act.populations.observations)
         IN  /\ Len(expObs) = Len(actObs)
             /\ \A idx \in 1..Len(expObs) : expObs[idx] = actObs[idx]
    ELSE exp.populations.observations.obs1 = act.populations.observations.obs1

\* Faulty variant of ObsMatch: Groups 1-4 compare all four slots.
ObsMatchEverySlot(exp, act) ==
    IF exp.groupId = "Group_5" \/ exp.groupId = "Group_6"
    THEN LET expObs == NonZeroDesc(exp.populations.observations)
             actObs == NonZeroDesc(act.populations.observations)
         IN  /\ Len(expObs) = Len(actObs)
             /\ \A idx \in 1..Len(expObs) : expObs[idx] = actObs[idx]
    ELSE exp.populations.observations = act.populations.observations

\* obsMatch
ObsMatch(exp, act) ==
    IF exp.groupId = "Group_5" \/ exp.groupId = "Group_6"
    THEN LET expObs == NonZeroDesc(exp.populations.observations)
             actObs == NonZeroDesc(act.populations.observations)
         IN  /\ Len(expObs) = Len(actObs)
             /\ \A idx \in 1..Len(expObs) : expObs[idx] = actObs[idx]
    ELSE exp.populations.observations.obs1 = act.populations.observations.obs1

\* Faulty variant of Comparison: the two measure scores have to agree too.
ComparisonOfScores(exp, act) ==
    [groupId |-> exp.groupId,
     expected |-> exp.populations,
     actual |-> act.populations,
     expectedScore |-> exp.measureScore,
     actualScore |-> act.measureScore,
     passed |-> /\ PopMatch(exp, act)
                /\ ObsMatch(exp, act)
                /\ FracEq(exp.measureScore, act.measureScore)]

\* The GroupComparison pushed for one pair.
Comparison(exp, act) ==
    [groupId |-> exp.groupId,
     expected |-> exp.populations,
     actual |-> act.populations,
     expectedScore |-> exp.measureScore,
     actualScore |-> act.measureScore,
     passed |-> PopMatch(exp, act) /\ ObsMatch(exp, act)]

\* Faulty variant of CompareFrom: an index present on one side only is
\* reported as a failed comparison of the record with itself.
RECURSIVE CompareFromReporting(_, _, _)
CompareFromReporting(exp, act, i) ==
    IF i > Max(Len(exp), Len(act)) THEN <<>>
    ELSE IF i > Len(exp)
         THEN <<[Comparison(act[i], act[i]) EXCEPT !.passed = FALSE]>>
                  \o CompareFromReporting(exp, act, i + 1)
         ELSE IF i > Len(act)
              THEN <<[Comparison(exp[i], exp[i]) EXCEPT !.passed = FALSE]>>
                       \o CompareFromReporting(exp, act, i + 1)
              ELSE <<Comparison(exp[i], act[i])>> \o CompareFromReporting(exp, act, i + 1)

\* The loop of compareGroups from index i on (1-based).
RECURSIVE CompareFrom(_, _, _)
CompareFrom(exp, act, i) ==
    IF i > Max(Len(exp), Len(act)) THEN <<>>
    ELSE IF i > Len(exp) \/ i > Len(act)
         THEN CompareFrom(exp, act, i + 1)
         ELSE <<Comparison(exp[i], act[i])>> \o CompareFrom(exp, act, i + 1)

compareGroups(exp, act) == CompareFrom(exp, act, 1)

----------------------------------------------------------------------------
(* Operations                                                               *)

\* const actualGroups = calculateActualGroups(patientResults)
Calculate ==
    /\ pc = "input"
    /\ groups' = calculateActualGroups(expressions)
    /\ pc' = "calculated"
    /\ UNCHANGED <<expressions, expected, comparisons, testCases, position, results, output, report>>

\* The record of an aggregate group with its non-zero observations sorted
\* into the leading slots, as a sort of the record's own array leaves it.
SortedInPlace(g) ==
    IF g.groupId \in {"Group_5", "Group_6"}
    THEN LET s == NonZeroDesc(g.populations.observations)
         IN  [g EXCEPT !.populations.observations =
                  Observations(SlotOrZero(s, 1), SlotOrZero(s, 2),
                               SlotOrZero(s, 3), SlotOrZero(s, 4))]
    ELSE g

\* Faulty variant of Compare: the observations are sorted in the records
\* themselves instead of in a filtered copy.
CompareSortingInPlace ==
    /\ pc = "calculated"
    /\ comparisons' = compareGroups(expected, groups)
    /\ pc' = "compared"
    /\ expected' = [i \in DOMAIN expected |-> SortedInPlace(expected[i])]
    /\ groups' = [i \in DOMAIN groups |-> SortedInPlace(groups[i])]
    /\ UNCHANGED <<expressions, testCases, position, results, output, report>>

\* const groupComparisons = compareGroups(expectedResults.groups, actualGroups)
Compare ==
    /\ pc = "calculated"
    /\ comparisons' = compareGroups(expected, groups)
    /\ pc' = "compared"
    /\ UNCHANGED <<expressions, expected, groups, testCases, position, results, output, report>>

----------------------------------------------------------------------------
(* The madie command: one test case after the other                        *)

\* Before the summary there is no outputData and the process has not exited.
NoOutput == [total |-> 0, passed |-> 0, failed |-> 0, titles |-> <<>>, exited |-> FALSE]

\* if (Array.isArray(ipResult)) actualCount = ipResult.length;
\* else if (ipResult) actualCount = 1;
ActualCount(ipResult) ==
    IF ipResult.isArray THEN Len(ipResult.items)
    ELSE IF ipResult.truthy THEN 1 ELSE 0

\* `populations.find(p => p.code === code)?.count ?? 0`
RECURSIVE FindCount(_, _)
FindCount(populations, code) ==
    IF populations = <<>> THEN 0
    ELSE IF Head(populations).code = code THEN Head(populations).count
         ELSE FindCount(Tail(populations), code)

ExpectedCount(testCase) == FindCount(testCase.populations, "initial-population")

\* Faulty variant of AllGroupsPass: at least one comparison is required.
AllGroupsPassAndSome(groupComparisons) ==
    /\ groupComparisons # <<>>
    /\ \A k \in DOMAIN groupComparisons : groupComparisons[k].passed

\* groupComparisons.every(g => g.passed)
AllGroupsPass(groupComparisons) ==
    \A k \in DOMAIN groupComparisons : groupComparisons[k].passed

\* Faulty variant of Verdict: the Initial Population count is not compared.
VerdictOfGroupsOnly(actualCount, expectedCount, groupComparisons) ==
    AllGroupsPass(groupComparisons)

\* const passed = ipPassed && allGroupsPass
Verdict(actualCount, expectedCount, groupComparisons) ==
    /\ actualCount = expectedCount
    /\ AllGroupsPass(groupComparisons)

\* The entry pushed at the end of the try block.
ResultOf(testCase) ==
    LET patientResults == testCase.patientResults
        actualCount == ActualCount(patientResults.initialPopulation)
        expectedCount == ExpectedCount(testCase)
        observations == calculateObservations(patientResults)
        actualGroups == calculateActualGroups(patientResults)
        groupComparisons == compareGroups(testCase.expectedGroups, actualGroups)
    IN  [testCase |-> testCase,
         passed |-> Verdict(actualCount, expectedCount, groupComparisons),
         actualCount |-> actualCount,
         expectedCount |-> expectedCount,
         groupComparisons |-> groupComparisons,
         observations |-> observations]

\* The entry pushed by the catch block.
ErrorResultOf(testCase) ==
    [testCase |-> testCase,
     passed |-> FALSE,
     actualCount |-> 0,
     expectedCount |-> ExpectedCount(testCase),
     error |-> "message"]

\* One iteration of the loop whose try block runs to its end.
RunTestCase ==
    /\ pc = "running"
    /\ position <= Len(testCases)
    /\ ~testCases[position].throws
    /\ LET testCase == testCases[position]
       IN  /\ expressions' = testCase.patientResults
           /\ expected' = testCase.expectedGroups
           /\ groups' = calculateActualGroups(testCase.patientResults)
           /\ comparisons' = compareGroups(testCase.expectedGroups,
                                           calculateActualGroups(testCase.patientResults))
           /\ results' = Append(results, ResultOf(testCase))
    /\ position' = position + 1
    /\ UNCHANGED <<pc, testCases, output, report>>

\* Faulty variant of CatchError: the error is caught outside the loop, so
\* that the failed entry is pushed and the loop is left.
CatchErrorLeavingLoop ==
    /\ pc = "running"
    /\ position <= Len(testCases)
    /\ testCases[position].throws
    /\ results' = Append(results, ErrorResultOf(testCases[position]))
    /\ position' = Len(testCases) + 1
    /\ UNCHANGED <<expressions, expected, groups, comparisons, pc, testCases, output, report>>

\* One iteration of the loop in which the evaluation throws.
CatchError ==
    /\ pc = "running"
    /\ position <= Len(testCases)
    /\ testCases[position].throws
    /\ results' = Append(results, ErrorResultOf(testCases[position]))
    /\ position' = position + 1
    /\ UNCHANGED <<expressions, expected, groups, comparisons, pc, testCases, output, report>>

\* results.filter(p).length
RECURSIVE CountWhere(_, _)
CountWhere(entries, wanted) ==
    IF entries = <<>> THEN 0
    ELSE (IF Head(entries).passed = wanted THEN 1 ELSE 0) + CountWhere(Tail(entries), wanted)

\* First pass: `nameCounts[name] = (nameCounts[name] || 0) + 1` for every entry.
RECURSIVE NameCounts(_)
NameCounts(entries) ==
    IF entries = <<>> THEN [n \in {} |-> 0]
    ELSE LET name == entries[Len(entries)].testCase.name
             before == NameCounts(SubSeq(entries, 1, Len(entries) - 1))
         IN  [n \in DOMAIN before \cup {name} |->
                 IF n = name
                 THEN (IF n \in DOMAIN before THEN before[n] ELSE 0) + 1
                 ELSE before[n]]

\* `${name}_${index}`
Suffixed(name, index) == name \o "_" \o ToString(index)

\* results.map: the title of each entry, nameIndices counting as it goes.
RECURSIVE TitlesFrom(_, _, _)
TitlesFrom(entries, nameCounts, nameIndices) ==
    IF entries = <<>> THEN <<>>
    ELSE LET name == Head(entries).testCase.name
         IN  IF nameCounts[name] > 1
             THEN LET indices == [nameIndices EXCEPT ![name] = @ + 1]
                  IN  <<Suffixed(name, indices[name])>>
                          \o TitlesFrom(Tail(entries), nameCounts, indices)
             ELSE <<name>> \o TitlesFrom(Tail(entries), nameCounts, nameIndices)

Titles(entries) ==
    TitlesFrom(entries, NameCounts(entries), [n \in DOMAIN NameCounts(entries) |-> 0])

\* Faulty variant of ExitCode: the process always ends normally.
ExitCodeIgnoringFailures(failedCount) == 0

\* if (failedCount > 0) process.exit(1)
ExitCode(failedCount) == IF failedCount > 0 THEN 1 ELSE 0

\* The summary after the loop: the counts, the output data and the exit.
Summarize ==
    /\ pc = "running"
    /\ position > Len(testCases)
    /\ output' = [total |-> Len(results),
                  passed |-> CountWhere(results, TRUE),
                  failed |-> CountWhere(results, FALSE),
                  titles |-> Titles(results),
                  exited |-> TRUE,
                  exitCode |-> ExitCode(CountWhere(results, FALSE))]
    /\ pc' = "done"
    /\ UNCHANGED <<expressions, expected, groups, comparisons, testCases, position,
                   results, report>>

----------------------------------------------------------------------------
(* Inputs                                                                   *)

\* The expression results of a patient, given its three population arrays
\* and its criterion arrays.
MkExpressions(ip, mp, mpe, crit) ==
    [n \in ExprNames |->
        IF n = "initialPopulation" THEN ip
        ELSE IF n = "measurePopulation" THEN mp
        ELSE IF n = "measurePopulationExclusion" THEN mpe
        ELSE crit[n]]

\* The encounters with the identifiers of a set, as the engine returns them:
\* objects with a string id, here in ascending order of the identifier.
RECURSIVE EncountersOf(_)
EncountersOf(ids) ==
    IF ids = {} THEN <<>>
    ELSE LET m == CHOOSE e \in ids : \A x \in ids : e <= x
         IN  <<StrItem(m)>> \o EncountersOf(ids \ {m})

\* The criterion arrays in which encounter e occurs iff profile[e] names the
\* criterion.
CriteriaOf(ids, profile) ==
    [c \in CriterionNames |-> Arr(EncountersOf({e \in ids : c \in profile[e]}))]

----------------------------------------------------------------------------
(* One encounter, every combination of memberships                          *)

InitEnc ==
    /\ \E p \in SUBSET CriterionNames :
           expressions = MkExpressions(Arr(<<StrItem(1)>>), Arr(<<StrItem(1)>>),
                                       Arr(<<>>), CriteriaOf({1}, [e \in {1} |-> p]))
    /\ expected = <<>>
    /\ groups = <<>>
    /\ comparisons = <<>>
    /\ testCases = <<>>
    /\ position = 1
    /\ results = <<>>
    /\ output = NoOutput
    /\ report = <<>>
    /\ pc = "input"

NextEnc == Calculate

SpecEnc == InitEnc /\ [][NextEnc]_vars

----------------------------------------------------------------------------
(* Several encounters: repeated and malformed elements                      *)

\* The largest encounter identifier.
MaxEnc == 2

\* The largest length of the raw Measure Population array.
MaxMP == 3

EncIds == 1..MaxEnc

\* Membership profiles of an encounter: in no criterion; screened only;
\* screened, not at risk and without referral (with an assessment on file);
\* at risk and assessed as not or mildly malnourished; at risk, moderately or
\* severely malnourished with a diagnosis; the full pathway.
Profiles ==
    {{},
     {"screeningOrReferral"},
     {"screeningOrReferral", "notAtRiskWithoutReferral", "atRiskOrReferral",
      "assessmentWithStatus"},
     {"screeningOrReferral", "atRiskOrReferral", "assessmentWithStatus",
      "notMildAssessment"},
     {"screeningOrReferral", "atRiskOrReferral", "assessmentWithStatus",
      "modSevereAssessment", "diagnosis"},
     {"screeningOrReferral", "atRiskOrReferral", "assessmentWithStatus",
      "modSevereAssessment", "diagnosis", "carePlan"}}

SeqsUpTo(A, n) == UNION {[1..k -> A] : k \in 0..n}

\* Raw Measure Population values: arrays of encounters, which may repeat an
\* identifier or hold an object without id, and a value that is no array.
RawPopulations ==
    {Arr(items) : items \in SeqsUpTo({StrItem(e) : e \in EncIds} \cup {Item("noid", 0)}, MaxMP)}
        \cup {NotArray}

InitAgg ==
    /\ \E mp \in RawPopulations, profile \in [EncIds -> Profiles], wider \in BOOLEAN :
           expressions =
               MkExpressions(IF wider THEN Arr(mp.items \o <<StrItem(1)>>) ELSE mp,
                             mp,
                             IF wider THEN Arr(<<StrItem(1)>>) ELSE NotArray,
                             CriteriaOf(EncIds, profile))
    /\ expected = <<>>
    /\ groups = <<>>
    /\ comparisons = <<>>
    /\ testCases = <<>>
    /\ position = 1
    /\ results = <<>>
    /\ output = NoOutput
    /\ report = <<>>
    /\ pc = "input"

NextAgg == Calculate

SpecAgg == InitAgg /\ [][NextAgg]_vars

----------------------------------------------------------------------------
(* Order of the Measure Population                                          *)

\* The largest number of encounters of the Measure Population.
MaxSeq == 5

\* In no criterion (score 0); screened only (score 1, 25 %); the full pathway
\* (score 4, 100 %).
OrderProfiles ==
    {{},
     {"screeningOrReferral"},
     {"screeningOrReferral", "atRiskOrReferral", "assessmentWithStatus",
      "modSevereAssessment", "diagnosis", "carePlan"}}

\* The expected groups of a MeasureReport that lists the encounters in the
\* order of the Measure Population array and agrees with the evaluation.
InitOrder ==
    /\ \E n \in 0..MaxSeq : \E profile \in [1..n -> OrderProfiles] :
           expressions = MkExpressions(Arr(EncountersOf(1..n)), Arr(EncountersOf(1..n)),
                                       Arr(<<>>), CriteriaOf(1..n, profile))
    /\ expected = calculateActualGroups(expressions)
    /\ groups = <<>>
    /\ comparisons = <<>>
    /\ testCases = <<>>
    /\ position = 1
    /\ results = <<>>
    /\ output = NoOutput
    /\ report = <<>>
    /\ pc = "input"

NextOrder == Calculate \/ Compare

SpecOrder == InitOrder /\ [][NextOrder]_vars

----------------------------------------------------------------------------
(* compareGroups on given records                                           *)

\* The largest number of groups on either side.
MaxGroups == 2

\* Observation values of Groups 5 and 6: the values of the design document's
\* comparison examples.
ObsVals == {0, 2, 3, 4}

CountVals == {0, 1}

NoExpressions == [n \in ExprNames |-> NotArray]

\* One pair of aggregate groups with equal populations.
AggregatePairs ==
    {<<Group(id, Populations(1, 1, 0, Observations(e[1], e[2], e[3], e[4])), Frac(1, 1)),
       Group(id, Populations(1, 1, 0, Observations(a[1], a[2], a[3], a[4])), Frac(1, 1))>> :
        id \in {"Group_5", "Group_6"},
        e \in [1..4 -> ObsVals], a \in [1..4 -> ObsVals]}

\* One pair of groups of any id with populations and obs1 that may differ.
CountPairs ==
    {<<Group(GroupId(i), Populations(e[1], e[2], e[3], Observations(e[4], e[5], e[5], e[5])),
             Frac(e[4], 1)),
       Group(GroupId(i), Populations(a[1], a[2], a[3], Observations(a[4], a[5], a[5], a[5])),
             Frac(a[4], 1))>> :
        i \in 1..6, e \in [1..5 -> CountVals], a \in [1..5 -> CountVals]}

ListRecords ==
    {Group("Group_1", Populations(1, 1, 0, Observations(1, 0, 0, 0)), Frac(1, 1)),
     Group("Group_1", Populations(1, 1, 0, Observations(0, 0, 0, 0)), FracZero),
     Group("Group_1", Populations(1, 1, 0, Observations(1, 0, 0, 0)), Frac(1, 2)),
     Group("Group_5", Populations(1, 1, 0, Observations(4, 3, 0, 0)), Frac(7, 2)),
     Group("Group_5", Populations(1, 1, 0, Observations(3, 4, 0, 0)), Frac(7, 2)),
     Group("Group_1", Populations(1, 1, 0, Observations(3, 4, 0, 0)), Frac(7, 2))}

InitCmp ==
    /\ expressions = NoExpressions
    /\ \/ \E p \in AggregatePairs \cup CountPairs :
              /\ expected = <<p[1]>>
              /\ groups = <<p[2]>>
       \/ /\ expected \in SeqsUpTo(ListRecords, MaxGroups)
          /\ groups \in SeqsUpTo(ListRecords, MaxGroups)
    /\ comparisons = <<>>
    /\ testCases = <<>>
    /\ position = 1
    /\ results = <<>>
    /\ output = NoOutput
    /\ report = <<>>
    /\ pc = "calculated"

NextCmp == Compare

SpecCmp == InitCmp /\ [][NextCmp]_vars

----------------------------------------------------------------------------
(* Raw values of every shape                                                *)

\* The largest length of a raw array of mixed elements.
MaxRaw == 3

\* Identifiers carried by raw elements; 0 is the falsy identifier.
RawIds == {0, 1, 2}

RawItems ==
    {Item("nonobj", 0), Item("noid", 0), Item("other", 1)}
        \cup {Item(k, i) : k \in {"str", "wrap"}, i \in RawIds}

\* An array none of whose elements has an extractable identifier.
Unidentified ==
    Arr(<<Item("nonobj", 0), Item("noid", 0), Item("str", 0), Item("wrap", 0),
          Item("other", 1)>>)

\* The ways in which a criterion without encounters reaches the scorer.
Blanks == {NotArray, Scalar, Arr(<<>>), Unidentified}

\* Encounter 1 is screened only, encounter 2 is on the full pathway; the
\* criteria that hold neither of them arrive as a blank.
InitExt ==
    /\ \E mp \in {Arr(items) : items \in SeqsUpTo(RawItems, MaxRaw)} \cup {NotArray, Scalar},
          blank \in Blanks :
           expressions =
               MkExpressions(mp, mp, NotArray,
                   [c \in CriterionNames |->
                       IF c = "screeningOrReferral" THEN Arr(EncountersOf({1, 2}))
                       ELSE IF c \in {"notAtRiskWithoutReferral", "notMildAssessment"}
                            THEN blank
                            ELSE Arr(EncountersOf({2}))])
    /\ expected = <<>>
    /\ groups = <<>>
    /\ comparisons = <<>>
    /\ testCases = <<>>
    /\ position = 1
    /\ results = <<>>
    /\ output = NoOutput
    /\ report = <<>>
    /\ pc = "input"

NextExt == Calculate

SpecExt == InitExt /\ [][NextExt]_vars

----------------------------------------------------------------------------
(* Lists of test cases                                                      *)

\* The largest number of test cases in a run.
MaxTests == 2

\* One encounter on the full pathway.
OneEncounter ==
    MkExpressions(Arr(EncountersOf({1})), Arr(EncountersOf({1})), NotArray,
                  CriteriaOf({1}, [e \in {1} |-> CriterionNames
                                       \ {"notAtRiskWithoutReferral", "notMildAssessment"}]))

\* No expression results, one encounter, and an Initial Population that is
\* a single value instead of a list.
Patients ==
    {NoExpressions, OneEncounter, [NoExpressions EXCEPT !.initialPopulation = Scalar]}

ExpectedGroupLists == {<<>>} \cup {calculateActualGroups(p) : p \in Patients}

Population(code, count) == [code |-> code, count |-> count]

PopulationLists ==
    {<<>>,
     <<Population("measure-population", 0), Population("initial-population", 1)>>,
     <<Population("initial-population", 0), Population("initial-population", 1)>>}

TestCase(name, patientResults, expectedGroups, populations, throws) ==
    [name |-> name, patientResults |-> patientResults,
     expectedGroups |-> expectedGroups, populations |-> populations,
     throws |-> throws]

\* Test cases named "a" of every patient, test cases named "b" of the patient
\* with an encounter, and test cases of either name whose evaluation throws.
TestCases ==
    {TestCase("a", p, g, l, FALSE) :
        p \in Patients, g \in ExpectedGroupLists, l \in PopulationLists}
    \cup {TestCase("b", OneEncounter, g, l, FALSE) :
        g \in ExpectedGroupLists, l \in PopulationLists}
    \cup {TestCase(n, NoExpressions, <<>>, l, TRUE) :
        n \in {"a", "b"}, l \in PopulationLists}

InitRun ==
    /\ testCases \in SeqsUpTo(TestCases, MaxTests)
    /\ position = 1
    /\ results = <<>>
    /\ output = NoOutput
    /\ report = <<>>
    /\ expressions = NoExpressions
    /\ expected = <<>>
    /\ groups = <<>>
    /\ comparisons = <<>>
    /\ pc = "running"

NextRun == RunTestCase \/ CatchError \/ Summarize

SpecRun == InitRun /\ [][NextRun]_vars

\* The for loop goes on to its next test case: a step of RunTestCase or of
\* CatchError, whichever way the try block ends.
Iterate ==
    /\ pc = "running"
    /\ position <= Len(testCases)
    /\ position' = position + 1

\* The loop is sequential code: an iteration that can run does run.
SpecRunFair == SpecRun /\ WF_position(Iterate)

----------------------------------------------------------------------------
(* Lists of test-case names                                                 *)

\* The largest number of test cases in a run whose names are looked at.
MaxNames == 3

\* Names of test cases; one of them has the form of a suffixed title.
Names == {"a", "a_1", "b"}

\* Test cases that differ in their name and in whether they are evaluated.
NamedTestCases ==
    {TestCase(n, OneEncounter, <<>>,
              <<Population("initial-population", 1)>>, t) :
        n \in Names, t \in BOOLEAN}

InitNames ==
    /\ testCases \in SeqsUpTo(NamedTestCases, MaxNames)
    /\ position = 1
    /\ results = <<>>
    /\ output = NoOutput
    /\ report = <<>>
    /\ expressions = NoExpressions
    /\ expected = <<>>
    /\ groups = <<>>
    /\ comparisons = <<>>
    /\ pc = "running"

SpecNames == InitNames /\ [][NextRun]_vars

----------------------------------------------------------------------------
(* Expected results of a MeasureReport (test-bundle-processor.ts)           *)

\* A population of a MeasureReport group.  code is the code of its first
\* coding ("" if there is none), count is its count (0 also for an absent
\* one, `pop.count ?? 0`), and obsIndex is the X of an id that matches
\* /MeasureObservation_\d+_(\d+)/, 0 for an id that does not match.
ReportPopulation(code, count, obsIndex) ==
    [code |-> code, count |-> count, obsIndex |-> obsIndex]

\* A group of a MeasureReport; id "" stands for an absent id, an absent
\* population list is the empty one.
ReportGroup(id, population, score) == [id |-> id, population |-> population, score |-> score]

\* The measureScore of a report group: absent, or with a value.
NoScore == [present |-> FALSE, value |-> FracZero]

Score(value) == [present |-> TRUE, value |-> value]

\* Faulty variant of ApplyPopulation: the observation index is used in every
\* group, also in Groups 1-4.
ApplyPopulationIndexedEverywhere(groupPops, pop, groupId) ==
    IF pop.code = "initial-population"
    THEN [groupPops EXCEPT !.initialPopulation = pop.count]
    ELSE IF pop.code = "measure-population"
    THEN [groupPops EXCEPT !.measurePopulation = pop.count]
    ELSE IF pop.code = "measure-population-exclusion"
    THEN [groupPops EXCEPT !.measurePopulationExclusion = pop.count]
    ELSE IF pop.code \in {"measure-population-observation", "measure-observation"}
    THEN IF pop.obsIndex # 0
         THEN IF pop.obsIndex = 1 THEN [groupPops EXCEPT !.observations.obs1 = pop.count]
              ELSE IF pop.obsIndex = 2 THEN [groupPops EXCEPT !.observations.obs2 = pop.count]
              ELSE IF pop.obsIndex = 3 THEN [groupPops EXCEPT !.observations.obs3 = pop.count]
              ELSE IF pop.obsIndex = 4 THEN [groupPops EXCEPT !.observations.obs4 = pop.count]
              ELSE groupPops
         ELSE [groupPops EXCEPT !.observations.obs1 = @ + pop.count]
    ELSE groupPops

\* extractExpectedResults: the switch on the code of one population.
ApplyPopulation(groupPops, pop, groupId) ==
    IF pop.code = "initial-population"
    THEN [groupPops EXCEPT !.initialPopulation = pop.count]
    ELSE IF pop.code = "measure-population"
    THEN [groupPops EXCEPT !.measurePopulation = pop.count]
    ELSE IF pop.code = "measure-population-exclusion"
    THEN [groupPops EXCEPT !.measurePopulationExclusion = pop.count]
    ELSE IF pop.code \in {"measure-population-observation", "measure-observation"}
    THEN IF pop.obsIndex # 0
         THEN IF groupId = "Group_5" \/ groupId = "Group_6"
              THEN IF pop.obsIndex = 1 THEN [groupPops EXCEPT !.observations.obs1 = pop.count]
                   ELSE IF pop.obsIndex = 2 THEN [groupPops EXCEPT !.observations.obs2 = pop.count]
                   ELSE IF pop.obsIndex = 3 THEN [groupPops EXCEPT !.observations.obs3 = pop.count]
                   ELSE IF pop.obsIndex = 4 THEN [groupPops EXCEPT !.observations.obs4 = pop.count]
                   ELSE groupPops
              ELSE [groupPops EXCEPT !.observations.obs1 = @ + pop.count]
         ELSE [groupPops EXCEPT !.observations.obs1 = @ + pop.count]
    ELSE groupPops

\* extractExpectedResults: the loop over the populations of one group.
RECURSIVE GroupPops(_, _, _)
GroupPops(groupPops, population, groupId) ==
    IF population = <<>> THEN groupPops
    ELSE GroupPops(ApplyPopulation(groupPops, Head(population), groupId),
                   Tail(population), groupId)

\* `group.measureScore?.value ?? 0`
ScoreOrZero(score) == IF score.present THEN score.value ELSE FracZero

\* extractExpectedResults: the loop over the groups, `groups` being those
\* pushed so far.
RECURSIVE ExtractGroups(_, _)
ExtractGroups(reportGroups, extracted) ==
    IF reportGroups = <<>> THEN extracted
    ELSE LET group == Head(reportGroups)
             groupId == IF group.id # "" THEN group.id
                        ELSE "Group_" \o ToString(Len(extracted) + 1)
             groupPops == GroupPops(Populations(0, 0, 0, Observations(0, 0, 0, 0)),
                                    group.population, groupId)
         IN  ExtractGroups(Tail(reportGroups),
                           Append(extracted,
                                  Group(groupId, groupPops, ScoreOrZero(group.score))))

\* extractExpectedResults: the flat list of {code, count}.
RECURSIVE FlatPopulations(_)
FlatPopulations(population) ==
    IF population = <<>> THEN <<>>
    ELSE (IF Head(population).code # ""
          THEN <<Population(Head(population).code, Head(population).count)>>
          ELSE <<>>) \o FlatPopulations(Tail(population))

RECURSIVE FlatPopulationsOfGroups(_)
FlatPopulationsOfGroups(reportGroups) ==
    IF reportGroups = <<>> THEN <<>>
    ELSE FlatPopulations(Head(reportGroups).population)
             \o FlatPopulationsOfGroups(Tail(reportGroups))

\* loadTestCase: the test case gets the expected results of its MeasureReport.
LoadTestCase ==
    /\ pc = "report"
    /\ testCases' = <<TestCase("a", NoExpressions, ExtractGroups(report, <<>>),
                               FlatPopulationsOfGroups(report), FALSE)>>
    /\ pc' = "loaded"
    /\ UNCHANGED <<expressions, expected, groups, comparisons, position, results,
                   output, report>>

\* The largest number of populations of a group.
MaxPops == 2

ReportPopulations ==
    {ReportPopulation("initial-population", 2, 0),
     ReportPopulation("measure-population", 1, 0),
     ReportPopulation("measure-population-exclusion", 1, 0),
     ReportPopulation("numerator", 1, 0),
     ReportPopulation("", 1, 0),
     ReportPopulation("measure-population-observation", 1, 0),
     ReportPopulation("measure-population-observation", 1, 2)}
    \cup {ReportPopulation("measure-observation", n, x) : n \in {1, 2}, x \in 0..5}

EmptyReportGroup == ReportGroup("", <<>>, NoScore)

\* A report of one group; a report of five groups without id, of which the
\* last has populations; a report of two groups.
InitReport ==
    /\ report \in
           {<<ReportGroup(id, p, s)>> :
               id \in {"", "Group_2", "Group_5", "Group_6"},
               p \in SeqsUpTo(ReportPopulations, MaxPops),
               s \in {NoScore, Score(Frac(1, 2))}}
           \cup {<<EmptyReportGroup, EmptyReportGroup, EmptyReportGroup, EmptyReportGroup,
                   ReportGroup("", p, NoScore)>> :
               p \in SeqsUpTo(ReportPopulations, MaxPops)}
           \cup {<<ReportGroup("", p, NoScore), ReportGroup(id, q, NoScore)>> :
               id \in {"", "Group_6"},
               p \in SeqsUpTo(ReportPopulations, 1),
               q \in SeqsUpTo(ReportPopulations, 1)}
    /\ testCases = <<>>
    /\ position = 1
    /\ results = <<>>
    /\ output = NoOutput
    /\ expressions = NoExpressions
    /\ expected = <<>>
    /\ groups = <<>>
    /\ comparisons = <<>>
    /\ pc = "report"

NextReport == LoadTestCase

SpecReport == InitReport /\ [][NextReport]_vars

----------------------------------------------------------------------------
(* Properties                                                               *)

\* The measure-population set and the criterion sets of the current patient.
MeasurePop == getEncounterIds(expressions.measurePopulation)

Sets == CriterionSets(expressions)

Obs(g) == g.populations.observations

Slots(o) == <<o.obs1, o.obs2, o.obs3, o.obs4>>

Bit(b) == IF b THEN 1 ELSE 0

\* The observation flags as the specification words them.
StatedFlags(e, S) ==
    <<Bit(e \in S.screeningOrReferral),
      Bit(e \notin S.notAtRiskWithoutReferral /\ e \in S.atRiskOrReferral
              /\ e \in S.assessmentWithStatus),
      Bit(e \notin S.notAtRiskWithoutReferral /\ e \in S.atRiskOrReferral
              /\ e \in S.modSevereAssessment /\ e \in S.diagnosis),
      Bit(e \notin S.notAtRiskWithoutReferral /\ e \in S.atRiskOrReferral
              /\ e \in S.modSevereAssessment /\ e \in S.carePlan)>>

\* d is the eligible denominator that the specification's rules give e.
IsStatedDenominator(d, e, S) ==
    LET notAtRisk == e \in S.screeningOrReferral /\ e \in S.notAtRiskWithoutReferral
        shortPath == e \in S.atRiskOrReferral
                        /\ (e \in S.notMildAssessment \/ e \notin S.assessmentWithStatus)
    IN  /\ d \in {1, 2, 4}
        /\ d = 1 <=> notAtRisk
        /\ d = 2 <=> ~notAtRisk /\ (shortPath \/ e \notin S.screeningOrReferral)
        /\ d = 4 <=> ~notAtRisk /\ ~shortPath /\ e \in S.screeningOrReferral

\* The injective maps of 1..n onto itself.
PermsOf(n) == {f \in [1..n -> 1..n] : \A i, j \in 1..n : f[i] = f[j] => i = j}

\* The expression results with the Measure Population array reordered by f.
Reordered(expr, f) ==
    [expr EXCEPT !["measurePopulation"] =
        Arr([k \in 1..Len(expr.measurePopulation.items) |->
                expr.measurePopulation.items[f[k]]])]

\* C1: permuting the order of the Measure Population sequence never changes
\* the passed verdict of Group_5 and Group_6 against fixed expected groups,
\* whatever the number of encounters.
C1_OrderIndependence ==
    pc = "compared" =>
        \A f \in PermsOf(ArrayCount(expressions.measurePopulation)) :
            LET other == compareGroups(expected,
                                       calculateActualGroups(Reordered(expressions, f)))
            IN  \A g \in {5, 6} : other[g].passed = comparisons[g].passed

\* C2: the score of every encounter is at most its eligible denominator, so
\* every per-encounter percentage lies in 0..100.
C2_ScoreWithinDenominator ==
    pc = "calculated" =>
        /\ \A e \in MeasurePop :
               /\ EncScore(EncObsFirst(e, Sets)) <= EncEligibleFirst(e, Sets)
               /\ EncScore(EncObsSecond(e, Sets)) <= EncEligibleSecond(e, Sets)
        /\ \A k \in 1..4 : Slots(Obs(groups[6]))[k] \in 0..100

C4_EligibleDenominator ==
    /\ \A e \in MeasurePop :
           /\ IsStatedDenominator(EncEligibleFirst(e, Sets), e, Sets)
           /\ IsStatedDenominator(EncEligibleSecond(e, Sets), e, Sets)
    /\ pc = "calculated" =>
           \A e \in MeasurePop :
               \E d \in {1, 2, 4} :
                   /\ IsStatedDenominator(d, e, Sets)
                   /\ Obs(groups[6]).obs1 * d = 100 * Obs(groups[5]).obs1
                   /\ FracEq(groups[6].measureScore, Frac(Obs(groups[5]).obs1, d))

C4_Witness ==
    /\ pc = "calculated"
    /\ 1 \in Sets.screeningOrReferral
    /\ 1 \in Sets.atRiskOrReferral
    /\ 1 \in Sets.notMildAssessment
    /\ 1 \notin Sets.notAtRiskWithoutReferral
    /\ 1 \in Sets.assessmentWithStatus
    /\ Obs(groups[5]).obs1 = 2
    /\ Obs(groups[6]).obs1 = 100

\* The number of slots of o that hold v.
CountOf(v, o) == Cardinality({k \in 1..4 : Slots(o)[k] = v})

\* The non-zero values of a and b are the same multiset.
SameNonZeroValues(a, b) ==
    \A v \in {Slots(a)[k] : k \in 1..4} \cup {Slots(b)[k] : k \in 1..4} :
        v # 0 => CountOf(v, a) = CountOf(v, b)

SamePopulations(exp, act) ==
    /\ exp.populations.initialPopulation = act.populations.initialPopulation
    /\ exp.populations.measurePopulation = act.populations.measurePopulation
    /\ exp.populations.measurePopulationExclusion
           = act.populations.measurePopulationExclusion

IsAggregate(g) == g.groupId \in {"Group_5", "Group_6"}

IsRatio(g) == g.groupId \in {"Group_1", "Group_2", "Group_3", "Group_4"}

\* The observation match as the specification words it.
StatedObservationMatch(exp, act) ==
    IF IsAggregate(exp)
    THEN SameNonZeroValues(Obs(exp), Obs(act))
    ELSE Obs(exp).obs1 = Obs(act).obs1

\* The indices at which both sides have an entry.
Paired == 1..Min(Len(expected), Len(groups))

\* C5: for Groups 5 and 6 the observation match holds iff the non-zero
\* values of expected and actual obs1..obs4 are the same multiset;
\* [4,3,0,0] matches [3,4,0,0] and does not match [4,2,0,0].
C5_MultisetMatch ==
    /\ \A i \in Paired :
           IsAggregate(expected[i]) =>
               ObsMatch(expected[i], groups[i])
                   <=> SameNonZeroValues(Obs(expected[i]), Obs(groups[i]))
    /\ pc = "compared" =>
           \A i \in Paired :
               IsAggregate(expected[i]) /\ SamePopulations(expected[i], groups[i]) =>
                   (comparisons[i].passed
                       <=> SameNonZeroValues(Obs(expected[i]), Obs(groups[i])))
    /\ pc = "compared" =>
           \A i \in Paired :
               IsAggregate(expected[i]) /\ SamePopulations(expected[i], groups[i])
                   /\ Slots(Obs(expected[i])) = <<4, 3, 0, 0>> =>
                   /\ Slots(Obs(groups[i])) = <<3, 4, 0, 0>> => comparisons[i].passed
                   /\ Slots(Obs(groups[i])) = <<4, 2, 0, 0>> => ~comparisons[i].passed

C5_Witness ==
    /\ pc = "compared"
    /\ Len(expected) = 1 /\ Len(groups) = 1
    /\ expected[1].groupId = "Group_6"
    /\ Slots(Obs(expected[1])) = <<4, 3, 0, 0>>
    /\ Slots(Obs(groups[1])) = <<3, 4, 0, 0>>
    /\ comparisons[1].passed

\* Values tried for obs2..obs4 by the asymmetry law.
OtherSlotVals == {0, 1, 4}

WithOtherSlots(g, t) ==
    [g EXCEPT !.populations.observations = Observations(@.obs1, t[1], t[2], t[3])]

\* C6: for Groups 1-4, changing obs2, obs3 or obs4 of the expected or of the
\* actual record never changes the passed verdict.
C6_Asymmetry ==
    pc = "compared" =>
        \A i \in Paired :
            IsRatio(expected[i]) =>
                \A t, u \in [1..3 -> OtherSlotVals] :
                    compareGroups(<<WithOtherSlots(expected[i], t)>>,
                                  <<WithOtherSlots(groups[i], u)>>)[1].passed
                        = comparisons[i].passed

C6_Witness ==
    /\ pc = "compared"
    /\ Len(expected) = 1 /\ Len(groups) = 1
    /\ expected[1].groupId = "Group_2"
    /\ Obs(expected[1]).obs1 = Obs(groups[1]).obs1
    /\ Obs(expected[1]).obs2 # Obs(groups[1]).obs2
    /\ comparisons[1].passed

\* C7: passed = populationMatch AND observationMatch, populationMatch being
\* the equality of initialPopulation, measurePopulation and
\* measurePopulationExclusion of the two records.
C7_PassedIsConjunction ==
    pc = "compared" =>
        \A i \in Paired :
            comparisons[i].passed
                <=> SamePopulations(expected[i], groups[i])
                        /\ StatedObservationMatch(expected[i], groups[i])

C7_Witness ==
    /\ pc = "compared"
    /\ Len(expected) = 1 /\ Len(groups) = 1
    /\ StatedObservationMatch(expected[1], groups[1])
    /\ expected[1].populations.initialPopulation = groups[1].populations.initialPopulation
    /\ expected[1].populations.measurePopulation = groups[1].populations.measurePopulation
    /\ expected[1].populations.measurePopulationExclusion
           # groups[1].populations.measurePopulationExclusion
    /\ ~comparisons[1].passed

\* C8: an index present on one side only yields no comparison: the result
\* has min(len(expected), len(actual)) entries, the comparisons of the
\* paired indices in index order.
C8_SilentSkip ==
    pc = "compared" =>
        /\ Len(comparisons) = Min(Len(expected), Len(groups))
        /\ \A i \in 1..Len(comparisons) :
               /\ i <= Len(expected) /\ i <= Len(groups)
               /\ comparisons[i].groupId = expected[i].groupId
               /\ comparisons[i].expected = expected[i].populations
               /\ comparisons[i].actual = groups[i].populations
               /\ comparisons[i].expectedScore = expected[i].measureScore
               /\ comparisons[i].actualScore = groups[i].measureScore

C8_Witness ==
    /\ pc = "compared"
    /\ Len(expected) = 2
    /\ Len(groups) = 1
    /\ Len(comparisons) = 1
    /\ \A i \in 1..Len(comparisons) : comparisons[i].passed

\* C9: for i in 1..4, Group_i's obs1 is the number of encounters of the
\* measure-population set whose flag obs_i is 1, and its obs2..obs4 are 0.
C9_PopulationLevelSums ==
    pc = "calculated" =>
        \A i \in 1..4 :
            Obs(groups[i]) =
                Observations(Cardinality({e \in MeasurePop : StatedFlags(e, Sets)[i] = 1}),
                             0, 0, 0)

C9_Witness ==
    /\ pc = "calculated"
    /\ Cardinality(MeasurePop) = 2
    /\ MeasurePop \subseteq Sets.screeningOrReferral
    /\ Obs(groups[1]).obs1 = 2
    /\ Obs(groups[3]).obs1 = 1
    /\ Obs(groups[4]).obs1 = 0

\* C10: for Groups 1-4, measureScore is obs1 divided by the size of the
\* measure-population set (0 when it is empty), and that size is the stored
\* populations.measurePopulation, for every raw Measure Population input.
C10_ScoreOverPopulationSet ==
    pc = "calculated" =>
        \A i \in 1..4 :
            /\ groups[i].populations.measurePopulation = Cardinality(MeasurePop)
            /\ FracEq(groups[i].measureScore,
                      IF MeasurePop = {} THEN FracZero
                      ELSE Frac(Obs(groups[i]).obs1, Cardinality(MeasurePop)))

\* C11: for Groups 1-4, obs1 never exceeds the measurePopulation count used
\* as divisor, so measureScore lies in [0,1], for every input.
C11_RatioScoreInUnitInterval ==
    pc = "calculated" =>
        \A i \in 1..4 :
            /\ Obs(groups[i]).obs1 >= 0
            /\ Obs(groups[i]).obs1 <= groups[i].populations.measurePopulation
            /\ groups[i].measureScore.den > 0
            /\ FracLeq(FracZero, groups[i].measureScore)
            /\ FracLeq(groups[i].measureScore, Frac(1, 1))

C11_Witness ==
    /\ pc = "calculated"
    /\ groups[1].populations.measurePopulation = 3
    /\ Cardinality(MeasurePop) = 1
    /\ Obs(groups[1]).obs1 = 1
    /\ groups[1].measureScore = Frac(1, 3)

\* The eligible denominator and the percentage of an encounter as the
\* specification words them: the nearest integer to encScore / d * 100.
StatedDenominator(e, S) == CHOOSE d \in {1, 2, 4} : IsStatedDenominator(d, e, S)

StatedScore(e, S) == EncScore(StatedFlags(e, S))

StatedPercentage(e, S) ==
    LET d == StatedDenominator(e, S)
        x == 100 * StatedScore(e, S)
    IN  CHOOSE p \in 0..400 : 2 * p * d - 2 * x \in (1 - d)..d

RECURSIVE SeqSum(_)
SeqSum(s) == IF s = <<>> THEN 0 ELSE Head(s) + SeqSum(Tail(s))

\* The encounters of the sequence that per-encounter aggregation walks.
Sequence == getSortedEncounterIds(expressions.measurePopulation)

StatedScores == [k \in 1..Len(Sequence) |-> StatedScore(Sequence[k], Sets)]

StatedPercentages == [k \in 1..Len(Sequence) |-> StatedPercentage(Sequence[k], Sets)]

\* C12: Group_5.measureScore is the sum of encScore over the sequence
\* divided by |measurePopulation|, and Group_6.measureScore the sum of the
\* rounded encPercentage divided by |measurePopulation| * 100; one encounter
\* on the full pathway gives 4.0 and 1.0.
C12_AggregateScores ==
    pc = "calculated" =>
        LET n == Cardinality(MeasurePop)
        IN  /\ FracEq(groups[5].measureScore,
                      IF n = 0 THEN FracZero ELSE Frac(SeqSum(StatedScores), n))
            /\ FracEq(groups[6].measureScore,
                      IF n = 0 THEN FracZero
                      ELSE Frac(SeqSum(StatedPercentages), n * 100))
            /\ \A k \in 1..Min(4, Len(Sequence)) :
                   Slots(Obs(groups[6]))[k] = StatedPercentages[k]

\* C12 with |measurePopulation| read as the stored measurePopulation count.
AggregateScoresOverStoredCount ==
    pc = "calculated" =>
        LET n == groups[5].populations.measurePopulation
        IN  /\ FracEq(groups[5].measureScore,
                      IF n = 0 THEN FracZero ELSE Frac(SeqSum(StatedScores), n))
            /\ FracEq(groups[6].measureScore,
                      IF n = 0 THEN FracZero
                      ELSE Frac(SeqSum(StatedPercentages), n * 100))
            /\ \A k \in 1..Min(4, Len(Sequence)) :
                   Slots(Obs(groups[6]))[k] = StatedPercentages[k]

\* C13: slot obs_k of Group_5 holds the encScore, and of Group_6 the
\* encPercentage, of the k-th encounter of the sequence, 0 if there is none;
\* encounters after the fourth have no slot and count in measureScore only.
C13_PositionalSlots ==
    pc # "input" =>
        /\ \A k \in 1..4 :
               /\ Slots(Obs(groups[5]))[k]
                      = IF k <= Len(Sequence) THEN StatedScores[k] ELSE 0
               /\ Slots(Obs(groups[6]))[k]
                      = IF k <= Len(Sequence) THEN StatedPercentages[k] ELSE 0
        /\ DOMAIN Obs(groups[5]) = {"obs1", "obs2", "obs3", "obs4"}
        /\ DOMAIN Obs(groups[6]) = {"obs1", "obs2", "obs3", "obs4"}
        /\ groups[5].populations.measurePopulation > 0 =>
               /\ FracEq(groups[5].measureScore,
                         Frac(SeqSum(StatedScores),
                              groups[5].populations.measurePopulation))
               /\ FracEq(groups[6].measureScore,
                         Frac(SeqSum(StatedPercentages),
                              groups[6].populations.measurePopulation * 100))

C13_Witness ==
    /\ pc = "calculated"
    /\ Len(Sequence) = 5
    /\ StatedScores[5] = 4
    /\ \A k \in 1..4 : StatedScores[k] = 1
    /\ Slots(Obs(groups[5])) = <<1, 1, 1, 1>>
    /\ Slots(Obs(groups[6])) = <<25, 25, 25, 25>>
    /\ groups[5].measureScore = Frac(8, 5)

\* C14: if the Measure Population is empty (an empty array, or null, absent
\* or no array), the measureScore of all six groups is 0 and nothing is
\* divided by zero.
C14_EmptyPopulationScoresZero ==
    pc = "calculated"
        /\ (~expressions.measurePopulation.isArray
                \/ expressions.measurePopulation.items = <<>>) =>
        \A i \in 1..6 :
            /\ groups[i].measureScore.den > 0
            /\ groups[i].measureScore.num = 0

C14_Witness ==
    /\ pc = "calculated"
    /\ ~expressions.measurePopulation.isArray
    /\ Sets.screeningOrReferral # {}
    /\ Sets.diagnosis # {}
    /\ Len(groups) = 6
    /\ \A i \in 1..6 : groups[i].measureScore = FracZero

InNoCriterion(e) == \A c \in CriterionNames : e \notin Sets[c]

\* C15: an encounter identifier that belongs to none of the criterion sets
\* has the flags (0,0,0,0) and the eligible denominator 2.
C15_AbsentEncounter ==
    /\ \A e \in 0..(MaxEnc + 1) :
           InNoCriterion(e) =>
               /\ ObsIncrements(e, Sets) = <<0, 0, 0, 0>>
               /\ EncObsFirst(e, Sets) = <<0, 0, 0, 0>>
               /\ EncObsSecond(e, Sets) = <<0, 0, 0, 0>>
               /\ EncEligibleFirst(e, Sets) = 2
               /\ EncEligibleSecond(e, Sets) = 2
    /\ pc = "calculated" =>
           /\ \A k \in 1..Min(4, Len(Sequence)) :
                  InNoCriterion(Sequence[k]) =>
                      /\ Slots(Obs(groups[5]))[k] = 0
                      /\ Slots(Obs(groups[6]))[k] = 0
           /\ (\A e \in MeasurePop : InNoCriterion(e)) =>
                  \A i \in 1..6 : groups[i].measureScore.num = 0

C15_Witness ==
    /\ pc = "calculated"
    /\ Len(Sequence) = 2
    /\ InNoCriterion(Sequence[1])
    /\ ~InNoCriterion(Sequence[2])
    /\ Slots(Obs(groups[5])) = <<0, 4, 0, 0>>
    /\ Slots(Obs(groups[6])) = <<0, 100, 0, 0>>

\* C16: calculateActualGroups returns exactly six records, Group_1..Group_6
\* in that order, all with the same initialPopulation, measurePopulation and
\* measurePopulationExclusion, each a non-negative integer.
C16_SixGroups ==
    pc = "calculated" =>
        /\ Len(groups) = 6
        /\ [i \in 1..Len(groups) |-> groups[i].groupId]
               = <<"Group_1", "Group_2", "Group_3", "Group_4", "Group_5", "Group_6">>
        /\ \A i \in 1..Len(groups) :
               /\ groups[i].populations.initialPopulation \in Nat
               /\ groups[i].populations.measurePopulation \in Nat
               /\ groups[i].populations.measurePopulationExclusion \in Nat
               /\ SamePopulations(groups[i], groups[1])

C16_Witness ==
    /\ pc = "calculated"
    /\ Len(groups) = 6
    /\ groups[6].populations.initialPopulation = 4
    /\ groups[6].populations.measurePopulation = 3
    /\ groups[6].populations.measurePopulationExclusion = 1
    /\ groups[2].populations.initialPopulation = 4

\* An element has an extractable identifier: a non-empty string id, or an id
\* wrapper with a value.
Extractable(item) == item.kind \in {"str", "wrap"} /\ item.id # 0

ExtractableAt(val) == {i \in DOMAIN val.items : Extractable(val.items[i])}

\* The expression results with every blank criterion given as an empty array.
WithEmptyCriteria(expr) ==
    [n \in ExprNames |->
        IF n \in CriterionNames /\ expr[n] \in Blanks THEN Arr(<<>>) ELSE expr[n]]

\* C17: the extractors are total: a value that is no array yields the empty
\* set, elements without extractable identifier are dropped, and an absent
\* criterion set scores exactly like an empty one.
C17_ExtractorTotal ==
    /\ \A n \in ExprNames :
           LET val == expressions[n]
           IN  /\ ~val.isArray =>
                      getEncounterIds(val) = {} /\ getSortedEncounterIds(val) = <<>>
               /\ val.isArray =>
                      /\ getEncounterIds(val)
                             = {val.items[i].id : i \in ExtractableAt(val)}
                      /\ Len(getSortedEncounterIds(val)) = Cardinality(ExtractableAt(val))
               /\ 0 \notin getEncounterIds(val)
    /\ pc = "calculated" => groups = calculateActualGroups(WithEmptyCriteria(expressions))

C17_Witness ==
    /\ pc = "calculated"
    /\ expressions.notAtRiskWithoutReferral = Unidentified
    /\ expressions.measurePopulation.items
           = <<Item("nonobj", 0), Item("wrap", 0), Item("str", 2)>>
    /\ MeasurePop = {2}
    /\ Slots(Obs(groups[5])) = <<4, 0, 0, 0>>
    /\ Slots(Obs(groups[6])) = <<100, 0, 0, 0>>

\* The index of the k-th element with an extractable identifier.
KthExtractable(val, k) ==
    CHOOSE i \in ExtractableAt(val) :
        Cardinality({j \in ExtractableAt(val) : j <= i}) = k

C19_CompareGroupsPure ==
    /\ [][pc = "calculated" => expected' = expected /\ groups' = groups]_vars
    /\ [](pc = "compared" => comparisons = compareGroups(expected, groups))

C19_Witness ==
    /\ pc = "compared"
    /\ Len(expected) = 1 /\ Len(groups) = 1
    /\ expected[1].groupId = "Group_5"
    /\ Slots(Obs(expected[1])) = <<3, 4, 0, 0>>
    /\ Slots(Obs(groups[1])) = <<0, 4, 0, 3>>
    /\ expected[1].measureScore = Frac(1, 1)
    /\ Len(comparisons) = 1 /\ comparisons[1].passed

\* The count of the first population coded initial-population, 0 without one.
StatedExpectedCount(populations) ==
    LET at == {j \in DOMAIN populations : populations[j].code = "initial-population"}
    IN  IF at = {} THEN 0
        ELSE populations[CHOOSE j \in at : \A k \in at : j <= k].count

\* C20: a test case whose evaluation does not throw is marked passed iff
\* its actual Initial Population count equals the expected
\* initial-population count and every comparison returned by compareGroups
\* has passed.
C20_Verdict ==
    \A i \in DOMAIN results :
        LET r == results[i]
        IN  "error" \notin DOMAIN r =>
                /\ r.actualCount = ActualCount(r.testCase.patientResults.initialPopulation)
                /\ r.expectedCount = StatedExpectedCount(r.testCase.populations)
                /\ r.groupComparisons
                       = compareGroups(r.testCase.expectedGroups,
                                       calculateActualGroups(r.testCase.patientResults))
                /\ r.passed <=>
                       /\ r.actualCount = r.expectedCount
                       /\ \A k \in DOMAIN r.groupComparisons : r.groupComparisons[k].passed

C20_Witness ==
    /\ Len(results) = 2
    /\ "error" \notin DOMAIN results[1] /\ "error" \notin DOMAIN results[2]
    /\ results[1].passed
    /\ Len(results[1].groupComparisons) = 6
    /\ results[1].actualCount = 1
    /\ ~results[2].passed
    /\ Len(results[2].groupComparisons) = 6
    /\ \A k \in 1..6 : results[2].groupComparisons[k].passed
    /\ results[2].actualCount = 1 /\ results[2].expectedCount = 0

PassedEntries == {i \in DOMAIN results : results[i].passed}

FailedEntries == {i \in DOMAIN results : ~results[i].passed}

SameName(i) ==
    {j \in DOMAIN results : results[j].testCase.name = results[i].testCase.name}

SameNameUpTo(i) == {j \in SameName(i) : j <= i}

\* C23: the titles of the output are pairwise distinct; a name that occurs
\* once is its own title, and the k-th entry of a name that occurs more
\* than once has the title name_k.
C23_UniqueTitles ==
    pc = "done" =>
        /\ Len(output.titles) = Len(results)
        /\ \A i \in DOMAIN results :
               output.titles[i] =
                   IF Cardinality(SameName(i)) = 1
                   THEN results[i].testCase.name
                   ELSE Suffixed(results[i].testCase.name, Cardinality(SameNameUpTo(i)))
        /\ \A i, j \in DOMAIN results : i # j => output.titles[i] # output.titles[j]

\* The populations of a report group that are coded as observations.
IsObservation(pop) ==
    pop.code \in {"measure-observation", "measure-population-observation"}

ObservationsAt(g) == {j \in DOMAIN g.population : IsObservation(g.population[j])}

\* The sum of the counts of the populations of g at the indices J.
RECURSIVE CountSum(_, _)
CountSum(g, J) ==
    IF J = {} THEN 0
    ELSE LET j == CHOOSE k \in J : TRUE
         IN  g.population[j].count + CountSum(g, J \ {j})

\* The last population of g that sets slot X, 0 if there is none.
LastSetting(g, X) ==
    LET at == {j \in ObservationsAt(g) : g.population[j].obsIndex = X}
    IN  IF at = {} THEN 0 ELSE CHOOSE j \in at : \A k \in at : k <= j

\* The value of slot X of an aggregate group: the count of the last
\* population that sets it, and for obs1 the unmatched observations added
\* after it.
StatedSlot(g, X) ==
    LET last == LastSetting(g, X)
        added == IF X = 1
                 THEN CountSum(g, {j \in ObservationsAt(g) :
                                      j > last /\ g.population[j].obsIndex = 0})
                 ELSE 0
    IN  (IF last = 0 THEN 0 ELSE g.population[last].count) + added

\* The group id given to the k-th group of the report.
StatedGroupId(k) == IF report[k].id # "" THEN report[k].id ELSE GroupId(k)

\* C24: in a group other than Group_5 and Group_6 the counts of all
\* observation populations are summed into obs1 and obs2..obs4 stay 0; in
\* Group_5 and Group_6 a population MeasureObservation_N_X sets obsX to its
\* count for X in 1..4 and is ignored for another X, and an observation
\* with another id is added to obs1; a group without id is named Group_k by
\* its position k.
C24_ExpectedObservations ==
    pc = "loaded" =>
        LET extracted == testCases[1].expectedGroups
        IN  /\ Len(extracted) = Len(report)
            /\ \A k \in DOMAIN report :
                   /\ extracted[k].groupId = StatedGroupId(k)
                   /\ Slots(Obs(extracted[k])) =
                          IF StatedGroupId(k) \in {"Group_5", "Group_6"}
                          THEN <<StatedSlot(report[k], 1), StatedSlot(report[k], 2),
                                 StatedSlot(report[k], 3), StatedSlot(report[k], 4)>>
                          ELSE <<CountSum(report[k], ObservationsAt(report[k])), 0, 0, 0>>

C24_Witness ==
    /\ pc = "loaded"
    /\ Len(report) = 5
    /\ report[5].id = ""
    /\ report[5].population = <<ReportPopulation("measure-observation", 2, 3),
                                ReportPopulation("measure-observation", 1, 5)>>
    /\ testCases[1].expectedGroups[5].groupId = "Group_5"
    /\ Slots(Obs(testCases[1].expectedGroups[5])) = <<0, 0, 2, 0>>

\* The identifiers that occur in a sequence.
Range(s) == {s[k] : k \in DOMAIN s}

\* C25: for every value the identifiers that occur in
\* getSortedEncounterIds(value) are the set getEncounterIds(value); so the
\* encounters scored one by one for Groups 5-6 are those counted for
\* Groups 1-4.
C25_ExtractorsAgree ==
    /\ \A n \in ExprNames :
           Range(getSortedEncounterIds(expressions[n])) = getEncounterIds(expressions[n])
    /\ Range(Sequence) = MeasurePop

C25_Witness ==
    /\ pc = "calculated"
    /\ expressions.measurePopulation.items
           = <<Item("wrap", 2), Item("other", 1), Item("str", 1)>>
    /\ Sequence = <<2, 1>>
    /\ MeasurePop = {1, 2}

\* Every element of the Measure Population array has an extractable
\* identifier, and the identifiers are pairwise distinct.
DistinctEncounters ==
    LET mp == expressions.measurePopulation
    IN  /\ mp.isArray
        /\ \A i \in DOMAIN mp.items : Extractable(mp.items[i])
        /\ \A i, j \in DOMAIN mp.items : i # j => mp.items[i].id # mp.items[j].id

ScoreVals == {FracZero, Frac(1, 2), Frac(7, 2)}

WithScore(g, s) == [g EXCEPT !.measureScore = s]

WithScores(list, s) == [i \in DOMAIN list |-> WithScore(list[i], s)]

\* C27: the measure scores never influence the verdict: with another
\* expected or another actual measureScore every comparison has the same
\* `passed`; the scores are only copied into the comparison.
C27_ScoreNotCompared ==
    /\ \A i \in Paired : \A s, t \in ScoreVals :
           Comparison(WithScore(expected[i], s), WithScore(groups[i], t)).passed
               = Comparison(expected[i], groups[i]).passed
    /\ pc = "compared" =>
           /\ \A k \in DOMAIN comparisons :
                  /\ comparisons[k].expectedScore = expected[k].measureScore
                  /\ comparisons[k].actualScore = groups[k].measureScore
           /\ \A s, t \in ScoreVals :
                  LET other == compareGroups(WithScores(expected, s), WithScores(groups, t))
                  IN  /\ Len(other) = Len(comparisons)
                      /\ \A k \in DOMAIN comparisons :
                             other[k].passed = comparisons[k].passed

C27_Witness ==
    /\ pc = "compared"
    /\ Len(expected) = 1 /\ Len(groups) = 1
    /\ expected[1].measureScore = Frac(1, 1)
    /\ groups[1].measureScore = Frac(1, 2)
    /\ Len(comparisons) = 1
    /\ comparisons[1].passed
    /\ comparisons[1].expectedScore = Frac(1, 1)
    /\ comparisons[1].actualScore = Frac(1, 2)

\* C28: compareGroups pairs the records by position and takes the
\* observation rule from the groupId of the expected record: the multiset
\* rule iff it is Group_5 or Group_6, the obs1 rule otherwise; the groupId
\* of the actual record is never read, and the comparison carries the
\* groupId of the expected record.
C28_RuleOfExpectedId ==
    /\ \A i \in Paired :
           /\ ObsMatch(expected[i], groups[i])
                  <=> IF expected[i].groupId \in {"Group_5", "Group_6"}
                      THEN SameNonZeroValues(Obs(expected[i]), Obs(groups[i]))
                      ELSE Obs(expected[i]).obs1 = Obs(groups[i]).obs1
           /\ \A k \in 1..6 :
                  Comparison(expected[i], [groups[i] EXCEPT !.groupId = GroupId(k)])
                      = Comparison(expected[i], groups[i])
    /\ pc = "compared" =>
           /\ Len(comparisons) = Cardinality(Paired)
           /\ \A i \in Paired :
                  /\ comparisons[i].groupId = expected[i].groupId
                  /\ comparisons[i].expected = expected[i].populations
                  /\ comparisons[i].actual = groups[i].populations
                  /\ comparisons[i].passed
                         <=> /\ SamePopulations(expected[i], groups[i])
                             /\ IF expected[i].groupId \in {"Group_5", "Group_6"}
                                THEN SameNonZeroValues(Obs(expected[i]), Obs(groups[i]))
                                ELSE Obs(expected[i]).obs1 = Obs(groups[i]).obs1

C28_Witness ==
    /\ pc = "compared"
    /\ Len(expected) = 2 /\ Len(groups) = 2
    /\ expected[1].groupId = "Group_5" /\ groups[1].groupId = "Group_1"
    /\ Slots(Obs(expected[1])) = <<4, 3, 0, 0>>
    /\ Slots(Obs(groups[1])) = <<3, 4, 0, 0>>
    /\ comparisons[1].passed /\ comparisons[1].groupId = "Group_5"
    /\ expected[2].groupId = "Group_1" /\ groups[2].groupId = "Group_5"
    /\ Slots(Obs(expected[2])) = <<3, 4, 0, 0>>
    /\ Slots(Obs(groups[2])) = <<4, 3, 0, 0>>
    /\ ~comparisons[2].passed /\ comparisons[2].groupId = "Group_1"

\* C29: rounding changes nothing: for every encounter of the sequence
\* encScore * 100 is a multiple of the eligible denominator, so that the
\* unrounded percentage of the first loop and the rounded percentage of the
\* second loop are the same integer.
C29_RoundingNoOp ==
    /\ \A k \in DOMAIN Sequence :
           LET e == Sequence[k]
           IN  /\ (EncScore(EncObsFirst(e, Sets)) * 100) % EncEligibleFirst(e, Sets) = 0
               /\ (EncScore(EncObsSecond(e, Sets)) * 100) % EncEligibleSecond(e, Sets) = 0
               /\ FracEq(EncPercentage(e, Sets), Frac(EncPct(e, Sets), 1))
    /\ pc = "calculated" =>
           \A k \in DOMAIN Sequence :
               k <= 4 => FracEq(EncPercentage(Sequence[k], Sets),
                                Frac(Slots(Obs(groups[6]))[k], 1))

C29_Witness ==
    /\ pc = "calculated"
    /\ Sequence = <<1>>
    /\ EncScore(EncObsFirst(1, Sets)) = 1
    /\ EncEligibleFirst(1, Sets) = 4
    /\ EncPercentage(1, Sets) = Frac(100, 4)
    /\ Slots(Obs(groups[6])) = <<25, 0, 0, 0>>

\* C30: when the expected results of a test case hold no groups (or the
\* actual side had none), compareGroups returns the empty list, and the
\* verdict of the test case is that of the Initial Population count alone.
C30_VacuousPass ==
    /\ \A i \in DOMAIN testCases :
           /\ compareGroups(testCases[i].expectedGroups, <<>>) = <<>>
           /\ compareGroups(<<>>, calculateActualGroups(testCases[i].patientResults)) = <<>>
    /\ \A i \in DOMAIN results :
           LET r == results[i]
           IN  "error" \notin DOMAIN r /\ r.testCase.expectedGroups = <<>> =>
                   /\ r.groupComparisons = <<>>
                   /\ r.passed <=> r.actualCount = r.expectedCount

C30_Witness ==
    /\ Len(results) = 2
    /\ "error" \notin DOMAIN results[1] /\ "error" \notin DOMAIN results[2]
    /\ results[1].testCase.expectedGroups = <<>>
    /\ results[1].testCase.patientResults = OneEncounter
    /\ results[1].groupComparisons = <<>>
    /\ results[1].actualCount = 1 /\ results[1].expectedCount = 1
    /\ results[1].passed
    /\ results[2].testCase.expectedGroups = <<>>
    /\ results[2].actualCount = 1 /\ results[2].expectedCount = 0
    /\ ~results[2].passed

====
